---- MODULE Spec2Model ----
(***************************************************************************)
(* Route service: graph loading and filtering, nearest-node snapping,      *)
(* bidirectional Dijkstra search and path reconstruction, and the          *)
(* /calculate_route handler.                                               *)
(*                                                                         *)
(* JavaScript values that the code compares with ===, tests for truthiness *)
(* or coerces with String() are modelled as pairs <<type, text>>, where    *)
(* text is the value's String() form: the number 0 is <<"number", "0">>,   *)
(* the string "0" is <<"string", "0">>, null is <<"null", "null">>.        *)
(***************************************************************************)
EXTENDS Integers, Sequences, FiniteSets, TLC

\* ---------------------------------------------------------------- bounds
\* Largest edge weight of the generated graphs (weights are 0..MaxWeight).
MaxWeight == 2
\* Largest number of edges of the graphs the search is run on.
MaxEdges == 3
\* The id texts of the generated data, in ascending numeric order: the order
\* in which `for (const k in obj)` visits integer-like keys.
IdTexts == <<"0", "1", "2">>

\* ---------------------------------------------------------------- JS values
Null == <<"null", "null">>
Num(t) == <<"number", t>>
Str(t) == <<"string", t>>
\* String(x)
String(x) == <<"string", x[2]>>
\* the property key an id is coerced to in obj[x]
Key(x) == x[2]
\* !x is false
Truthy(x) == x # Null /\ x # Num("0") /\ x # Str("")
Infinity == 1000000

\* keys of an object with integer-like keys, in iteration order
KeysInOrder(obj) == SelectSeq(IdTexts, LAMBDA t : t \in DOMAIN obj)

VARIABLES
  numericIds,   \* the data files carry ids as JSON numbers (TRUE) or strings
  nodesFile,    \* content served at nodesUrl: sequence of [id, lat, lng] or null
  edgesFile,    \* content served at edgesUrl: key -> sequence of [node, weight]
  graphNodes,   \* [null, v]: module variable graphNodes
  graphEdges,   \* [null, v]: module variable graphEdges
  loader,       \* where loadGraphData stands
  req,          \* the last /calculate_route call: its locals
  response,     \* the last /calculate_route response
  search        \* locals of a running bidirectionalDijkstra call

vars == <<numericIds, nodesFile, edgesFile, graphNodes, graphEdges, loader,
          req, response, search>>

\* ---------------------------------------------------------------- queue
\* queue.sort((a, b) => a.dist - b.dist): a stable ascending sort
RECURSIVE SortByDist(_)
SortByDist(q) ==
  IF q = <<>> THEN <<>>
  ELSE LET n == Len(q) IN
       LET front == SubSeq(q, 1, n - 1) IN
       LET sortedFront == SortByDist(front) IN
       \* q[n] goes after every entry that is <= it: stability
       LET le == SelectSeq(sortedFront, LAMBDA x : x.dist <= q[n].dist)
           gt == SelectSeq(sortedFront, LAMBDA x : x.dist > q[n].dist)
       IN le \o <<q[n]>> \o gt

\* queue.length > 0 ? queue[0].dist : Infinity
QueueFront(q) == IF Len(q) > 0 THEN q[1].dist ELSE Infinity

\* ---------------------------------------------------------------- search
\* every id text the two initialisation loops give a distance entry
GraphKeys(graph) ==
  DOMAIN graph \cup
  UNION {{Key(graph[k][i].node) : i \in DOMAIN graph[k]} : k \in DOMAIN graph}

\* distancesForward[start] !== undefined && distancesBackward[end] !== undefined
StartEndValid(graph, start, end) ==
  Key(start) \in GraphKeys(graph) /\ Key(end) \in GraphKeys(graph)

\* the locals after initialisation, on entering the while loop
SearchInit(graph, start, end) ==
  [ start |-> start, end |-> end,
    distancesForward  |-> [k \in GraphKeys(graph) |->
                             IF k = Key(start) THEN 0 ELSE Infinity],
    distancesBackward |-> [k \in GraphKeys(graph) |->
                             IF k = Key(end) THEN 0 ELSE Infinity],
    prevForward  |-> [k \in GraphKeys(graph) |-> Null],
    prevBackward |-> [k \in GraphKeys(graph) |-> Null],
    visitedForward |-> {}, visitedBackward |-> {},
    queueForward  |-> <<[node |-> start, dist |-> 0]>>,
    queueBackward |-> <<[node |-> end, dist |-> 0]>>,
    bestDistance |-> Infinity, meetingNode |-> Null,
    pc |-> "loop", path |-> <<>>, distance |-> Infinity ]

\* while (queueForward.length > 0 || queueBackward.length > 0)
LoopCond(s) == Len(s.queueForward) > 0 \/ Len(s.queueBackward) > 0

\* (mutant) the comparison of the break is turned around
EarlyStopCondFlipped(s) ==
  QueueFront(s.queueForward) + QueueFront(s.queueBackward) <= s.bestDistance

\* if (minForward + minBackward >= bestDistance) break
EarlyStopCond(s) ==
  QueueFront(s.queueForward) + QueueFront(s.queueBackward) >= s.bestDistance

\* if (queueForward.length > 0 && minForward <= minBackward)
ForwardCond(s) ==
  Len(s.queueForward) > 0 /\
  QueueFront(s.queueForward) <= QueueFront(s.queueBackward)

\* (mutant) the candidate leaves out the backward distance
MeetingCheckForwardOnly(s, current, otherVisited) ==
  IF current \in otherVisited
  THEN LET totalDist == s.distancesForward[Key(current)]
       IN IF totalDist < s.bestDistance
          THEN [s EXCEPT !.bestDistance = totalDist, !.meetingNode = current]
          ELSE s
  ELSE s

\* the meeting check of either direction, for the node just settled
MeetingCheck(s, current, otherVisited) ==
  IF current \in otherVisited
  THEN LET totalDist == s.distancesForward[Key(current)] +
                        s.distancesBackward[Key(current)]
       IN IF totalDist < s.bestDistance
          THEN [s EXCEPT !.bestDistance = totalDist, !.meetingNode = current]
          ELSE s
  ELSE s

\* for (const { node: neighbor, weight } of neighbors) ...
RECURSIVE RelaxForward(_, _, _, _)
RelaxForward(s, current, neighbors, i) ==
  IF i > Len(neighbors) THEN s
  ELSE LET neighbor == neighbors[i].node
           alt == s.distancesForward[Key(current)] + neighbors[i].weight
       IN IF alt < s.distancesForward[Key(neighbor)]
          THEN RelaxForward(
                 [s EXCEPT !.distancesForward[Key(neighbor)] = alt,
                           !.prevForward[Key(neighbor)] = current,
                           !.queueForward =
                              Append(@, [node |-> neighbor, dist |-> alt])],
                 current, neighbors, i + 1)
          ELSE RelaxForward(s, current, neighbors, i + 1)

\* (mutant) the forward branch without queueForward.shift(): the first entry
\* is read and stays in the queue
ForwardStepNoShift(graph, s) ==
  LET sorted == SortByDist(s.queueForward)
      current == Head(sorted).node
      s1 == [s EXCEPT !.queueForward = sorted]
  IN IF ~Truthy(current) \/ current \in s.visitedForward THEN s1
     ELSE LET s2 == [s1 EXCEPT !.visitedForward = @ \cup {current}]
              s3 == MeetingCheck(s2, current, s2.visitedBackward)
              neighbors == IF Key(current) \in DOMAIN graph
                           THEN graph[Key(current)] ELSE <<>>
          IN RelaxForward(s3, current, neighbors, 1)

\* the forward branch of one loop iteration
ForwardStep(graph, s) ==
  LET sorted == SortByDist(s.queueForward)
      current == Head(sorted).node
      s1 == [s EXCEPT !.queueForward = Tail(sorted)]
  IN IF ~Truthy(current) \/ current \in s.visitedForward THEN s1
     ELSE LET s2 == [s1 EXCEPT !.visitedForward = @ \cup {current}]
              s3 == MeetingCheck(s2, current, s2.visitedBackward)
              neighbors == IF Key(current) \in DOMAIN graph
                           THEN graph[Key(current)] ELSE <<>>
          IN RelaxForward(s3, current, neighbors, 1)

\* every (sourceNode, edge) the two nested loops of the backward branch visit
RECURSIVE EdgeScan(_, _)
EdgeScan(graph, keys) ==
  IF keys = <<>> THEN <<>>
  ELSE [i \in 1..Len(graph[Head(keys)]) |->
          [source |-> Head(keys), edge |-> graph[Head(keys)][i]]]
       \o EdgeScan(graph, Tail(keys))

\* for (const sourceNode in graph) for (const edge of edges) ...
RECURSIVE RelaxBackward(_, _, _, _)
RelaxBackward(s, current, scan, i) ==
  IF i > Len(scan) THEN s
  ELSE LET sourceNode == scan[i].source
           edge == scan[i].edge
       IN IF String(edge.node) = String(current)
          THEN LET alt == s.distancesBackward[Key(current)] + edge.weight
               IN IF alt < s.distancesBackward[sourceNode]
                  THEN RelaxBackward(
                         [s EXCEPT !.distancesBackward[sourceNode] = alt,
                                   !.prevBackward[sourceNode] = current,
                                   !.queueBackward =
                                      Append(@, [node |-> Str(sourceNode),
                                                 dist |-> alt])],
                         current, scan, i + 1)
                  ELSE RelaxBackward(s, current, scan, i + 1)
          ELSE RelaxBackward(s, current, scan, i + 1)

\* the backward branch of one loop iteration
BackwardStep(graph, s) ==
  LET sorted == SortByDist(s.queueBackward)
      current == Head(sorted).node
      s1 == [s EXCEPT !.queueBackward = Tail(sorted)]
  IN IF ~Truthy(current) \/ current \in s.visitedBackward THEN s1
     ELSE LET s2 == [s1 EXCEPT !.visitedBackward = @ \cup {current}]
              s3 == MeetingCheck(s2, current, s2.visitedForward)
          IN RelaxBackward(s3, current, EdgeScan(graph, KeysInOrder(graph)), 1)

\* while (u) { path.unshift(u); u = prevForward[u]; }
RECURSIVE ForwardChain(_, _)
ForwardChain(s, u) ==
  IF ~Truthy(u) THEN <<>>
  ELSE ForwardChain(s, s.prevForward[Key(u)]) \o <<u>>

\* while (u) { path.push(u); u = prevBackward[u]; }
RECURSIVE BackwardChain(_, _)
BackwardChain(s, u) ==
  IF ~Truthy(u) THEN <<>>
  ELSE <<u>> \o BackwardChain(s, s.prevBackward[Key(u)])

\* (mutant) the backward walk starts at the meeting node itself
ReconstructFromMeeting(s) ==
  IF s.meetingNode # Null
  THEN [s EXCEPT !.pc = "done",
                 !.path = ForwardChain(s, s.meetingNode) \o
                          BackwardChain(s, s.meetingNode),
                 !.distance = s.bestDistance]
  ELSE [s EXCEPT !.pc = "done", !.path = <<>>, !.distance = Infinity]

\* the code after the loop: reconstruct the path and return
Reconstruct(s) ==
  IF s.meetingNode # Null
  THEN [s EXCEPT !.pc = "done",
                 !.path = ForwardChain(s, s.meetingNode) \o
                          BackwardChain(s, s.prevBackward[Key(s.meetingNode)]),
                 !.distance = s.bestDistance]
  ELSE [s EXCEPT !.pc = "done", !.path = <<>>, !.distance = Infinity]

\* one iteration of the while loop, or leaving it
SearchStep(graph, s) ==
  IF ~LoopCond(s) \/ EarlyStopCond(s) THEN [s EXCEPT !.pc = "reconstruct"]
  ELSE IF ForwardCond(s) THEN ForwardStep(graph, s)
  ELSE IF Len(s.queueBackward) > 0 THEN BackwardStep(graph, s)
  ELSE s

RECURSIVE SearchLoop(_, _)
SearchLoop(graph, s) ==
  IF s.pc = "loop" THEN SearchLoop(graph, SearchStep(graph, s)) ELSE s

\* bidirectionalDijkstra(graph, start, end): { path, distance }
bidirectionalDijkstra(graph, start, end) ==
  IF start = end THEN [path |-> <<start>>, distance |-> 0]
  ELSE IF ~StartEndValid(graph, start, end)
  THEN [path |-> <<>>, distance |-> Infinity]
  ELSE LET s == Reconstruct(SearchLoop(graph, SearchInit(graph, start, end)))
       IN [path |-> s.path, distance |-> s.distance]

\* ---------------------------------------------------------------- locator
Abs(x) == IF x < 0 THEN -x ELSE x

\* haversine(lat1, lng1, lat2, lng2) for two points of the equator (every
\* coordinate of the model has lat = 0) at whole degrees of longitude:
\* a = sin^2(dLng/2), c = |dLng| in radians, R * c = |lng2 - lng1| * R*pi/180.
\* The value is in units of R*pi/180 km, which keeps order and ties.
haversine(lat1, lng1, lat2, lng2) == Abs(lng2 - lng1)

\* the scan of findNearestNode from node i on, with its two locals
RECURSIVE NearestScan(_, _, _, _, _, _, _)
NearestScan(lat, lng, nodes, excludeNodeId, i, minDist, nearest) ==
  IF i > Len(nodes) THEN nearest
  ELSE IF Truthy(excludeNodeId) /\ String(nodes[i].id) = String(excludeNodeId)
  THEN NearestScan(lat, lng, nodes, excludeNodeId, i + 1, minDist, nearest)
  ELSE LET dist == haversine(nodes[i].lat, nodes[i].lng, lat, lng)
       IN IF dist < minDist
          THEN NearestScan(lat, lng, nodes, excludeNodeId, i + 1, dist,
                           nodes[i].id)
          ELSE NearestScan(lat, lng, nodes, excludeNodeId, i + 1, minDist,
                           nearest)

\* findNearestNode(lat, lng, nodes, excludeNodeId = null)
findNearestNode(lat, lng, nodes, excludeNodeId) ==
  NearestScan(lat, lng, nodes, excludeNodeId, 1, Infinity, Null)

\* ---------------------------------------------------------------- loading
\* the Set routableNodeIds: every source key and String(edge.node)
routableNodeIds(edges) ==
  {Str(k) : k \in DOMAIN edges} \cup
  UNION {{String(edges[k][i].node) : i \in DOMAIN edges[k]} : k \in DOMAIN edges}

\* (mutant) every node is kept
FilterNothing(allNodes, edges) == allNodes

\* a JSON null among the records of the nodes array
NullNode == [null |-> TRUE]

\* node.id of a null element of the nodes array throws a TypeError inside the
\* filter callback
FilterThrows(allNodes) == \E i \in 1..Len(allNodes) : allNodes[i] = NullNode

\* allNodes.filter(node => routableNodeIds.has(String(node.id)))
FilterRoutable(allNodes, edges) ==
  SelectSeq(allNodes, LAMBDA node : String(node.id) \in routableNodeIds(edges))

\* ---------------------------------------------------------------- handler
\* the error texts of the responses, by the failure they report
DataUnavailable == "Graph data not loaded yet. Please try again in a moment."
TooClose == "Start and end locations are too close to calculate a meaningful route."
NoNearbyNode == "Could not find a nearby road for the start or end point."
NoRoute == "No route found. The locations may not be connected by road."

Failure(status, error) ==
  [status |-> status, success |-> FALSE, error |-> error, route |-> <<>>]

\* result.path.map(id => graphNodes.find(...)).filter(Boolean)
RECURSIVE PathCoords(_, _)
PathCoords(nodes, path) ==
  IF path = <<>> THEN <<>>
  ELSE LET found == SelectSeq(nodes,
                      LAMBDA n : String(n.id) = String(Head(path)))
       IN (IF found = <<>> THEN <<>>
           ELSE <<[lat |-> found[1].lat, lng |-> found[1].lng]>>)
          \o PathCoords(nodes, Tail(path))

\* the second snap of the end point (lines 239-242)
ResnapEnd(end, nodes, startNode, endNode) ==
  IF String(startNode) = String(endNode)
  THEN findNearestNode(end.lat, end.lng, nodes, startNode)
  ELSE endNode

\* the wifi networks of a request's deviceInfo, deviceInfo?.wifi?.networks:
\* "undefined" (no deviceInfo, no wifi or no networks), "array" of networks
\* given by their signalStrength, or a "number" other than 0
Networks(type, items) == [type |-> type, items |-> items]
NoDeviceInfo == Networks("undefined", <<>>)

\* analyzeWiFiNetworks throws a TypeError: past the guard
\* !wifiData || !wifiData.networks it calls wifiData.networks.reduce, which
\* only an array has
analyzeWiFiNetworksThrows(networks) == networks.type = "number"

\* comprehensiveIndoorDetection throws when analyzeWiFiNetworks does;
\* detectIndoorFromGPS and analyzeCellularNetwork only read properties
comprehensiveIndoorDetectionThrows(deviceInfo) ==
  analyzeWiFiNetworksThrows(deviceInfo)

\* the handler threw: its promise rejects and it writes none of its responses
Rejected ==
  [status |-> 500, success |-> FALSE, error |-> "TypeError", route |-> <<>>]

\* (mutant) the guard looks at the edges only
UnavailableEdgesOnly(nodes, edges) == edges.null

\* if (!graphNodes || !graphEdges): an array and an object are truthy, null
\* is not
Unavailable(nodes, edges) == nodes.null \/ edges.null

\* the handler's locals and its response, for the body {start, end,
\* deviceInfo}; the advisory indoorInfo of a success is left out of the
\* response
calculateRoute(nodes, edges, start, end, deviceInfo) ==
  IF Unavailable(nodes, edges)
  THEN [req |-> [kind |-> "early"], response |-> Failure(503, DataUnavailable)]
  ELSE
    LET startNode == findNearestNode(start.lat, start.lng, nodes.v, Null)
        firstEnd == findNearestNode(end.lat, end.lng, nodes.v, Null)
        endNode == ResnapEnd(end, nodes.v, startNode, firstEnd)
        locals == [kind |-> "route", start |-> start, end |-> end,
                   startNode |-> startNode, firstEnd |-> firstEnd,
                   endNode |-> endNode, searched |-> FALSE,
                   result |-> [path |-> <<>>, distance |-> Infinity]]
    IN IF String(startNode) = String(endNode)
       THEN [req |-> locals, response |-> Failure(200, TooClose)]
       ELSE IF comprehensiveIndoorDetectionThrows(deviceInfo)
       THEN [req |-> locals, response |-> Rejected]
       ELSE IF ~Truthy(startNode) \/ ~Truthy(endNode)
       THEN [req |-> locals, response |-> Failure(200, NoNearbyNode)]
       ELSE LET result == bidirectionalDijkstra(edges.v, String(startNode),
                                                String(endNode))
                ran == [locals EXCEPT !.searched = TRUE, !.result = result]
            IN IF Len(result.path) < 1
               THEN [req |-> ran, response |-> Failure(200, NoRoute)]
               ELSE [req |-> ran,
                     response |-> [status |-> 200, success |-> TRUE,
                                   error |-> "",
                                   route |-> PathCoords(nodes.v, result.path)]]

\* ---------------------------------------------------------------- inputs
\* an id as the data files carry it
FileId(numeric, t) == IF numeric THEN Num(t) ELSE Str(t)

IdSet == {IdTexts[i] : i \in 1..Len(IdTexts)}
Pairs == {p \in IdSet \X IdSet : p[1] # p[2]}

\* the edges object with one edge per pair of `pairs`, weighted by w; each
\* adjacency list in ascending order of destination
MkGraph(numeric, pairs, w) ==
  [k \in {p[1] : p \in pairs} |->
     LET dests == SelectSeq(IdTexts, LAMBDA d : <<k, d>> \in pairs)
     IN [i \in 1..Len(dests) |->
           [node |-> FileId(numeric, dests[i]), weight |-> w[<<k, dests[i]>>]]]]

NoValue == [null |-> TRUE, v |-> <<>>]
Value(x) == [null |-> FALSE, v |-> x]
NoReq == [kind |-> "none"]
NoSearch == [pc |-> "idle"]

\* ---------------------------------------------------------------- search, stepwise
\* bidirectionalDijkstra is called with String() ids on a loaded graph
InitSearch ==
  /\ numericIds \in BOOLEAN
  /\ \E pairs \in SUBSET Pairs :
       /\ Cardinality(pairs) <= MaxEdges
       /\ \E w \in [pairs -> 0..MaxWeight] :
            edgesFile = MkGraph(numericIds, pairs, w)
  /\ nodesFile = <<>>
  /\ graphNodes = Value(<<>>)
  /\ graphEdges = Value(edgesFile)
  /\ loader = "loaded"
  /\ req = NoReq
  /\ response = NoReq
  /\ \E start \in IdSet, end \in IdSet :
       search = [pc |-> "entry", start |-> Str(start), end |-> Str(end)]

\* lines 80-123: the early returns and the initialisation
BeginSearch ==
  /\ search.pc = "entry"
  /\ search' =
       IF search.start = search.end
       THEN [SearchInit(graphEdges.v, search.start, search.end) EXCEPT
               !.pc = "done", !.path = <<search.start>>, !.distance = 0]
       ELSE IF ~StartEndValid(graphEdges.v, search.start, search.end)
       THEN [SearchInit(graphEdges.v, search.start, search.end) EXCEPT
               !.pc = "done"]
       ELSE SearchInit(graphEdges.v, search.start, search.end)
  /\ UNCHANGED <<numericIds, nodesFile, edgesFile, graphNodes, graphEdges,
                 loader, req, response>>

\* the loop condition fails, or the early-stop check breaks
LeaveLoop ==
  /\ search.pc = "loop"
  /\ ~LoopCond(search) \/ EarlyStopCond(search)
  /\ search' = SearchStep(graphEdges.v, search)
  /\ UNCHANGED <<numericIds, nodesFile, edgesFile, graphNodes, graphEdges,
                 loader, req, response>>

ForwardAdvance ==
  /\ search.pc = "loop"
  /\ LoopCond(search) /\ ~EarlyStopCond(search) /\ ForwardCond(search)
  /\ search' = SearchStep(graphEdges.v, search)
  /\ UNCHANGED <<numericIds, nodesFile, edgesFile, graphNodes, graphEdges,
                 loader, req, response>>

BackwardAdvance ==
  /\ search.pc = "loop"
  /\ LoopCond(search) /\ ~EarlyStopCond(search) /\ ~ForwardCond(search)
  /\ search' = SearchStep(graphEdges.v, search)
  /\ UNCHANGED <<numericIds, nodesFile, edgesFile, graphNodes, graphEdges,
                 loader, req, response>>

Return ==
  /\ search.pc = "reconstruct"
  /\ search' = Reconstruct(search)
  /\ UNCHANGED <<numericIds, nodesFile, edgesFile, graphNodes, graphEdges,
                 loader, req, response>>

NextSearch ==
  BeginSearch \/ LeaveLoop \/ ForwardAdvance \/ BackwardAdvance \/ Return

SpecSearch == InitSearch /\ [][NextSearch]_vars

\* The call runs on one thread and nothing suspends it: whenever it has a
\* next statement it executes it.
SpecSearchFair == SpecSearch /\ WF_vars(NextSearch)

\* ---------------------------------------------------------------- service
\* Largest number of records in the nodes file.
MaxNodes == 3
\* Largest number of edges in the edges file the service loads.
MaxRouteEdges == 1
\* The longitudes (whole degrees on the equator) of the nodes and of the
\* query coordinates.
NodeLngs == {2, 3}
QueryLngs == 1..3

Coord(lng) == [lat |-> 0, lng |-> lng]

\* The deviceInfo of the requests: none, and one whose wifi.networks is a
\* number.
DeviceInfos == {NoDeviceInfo, Networks("number", <<>>)}

\* the node lists of n records with pairwise different ids
RECURSIVE NodeLists(_, _)
NodeLists(numeric, n) ==
  IF n = 0 THEN {<<>>}
  ELSE LET shorter == NodeLists(numeric, n - 1)
       IN shorter \cup
          {Append(l, [id |-> FileId(numeric, t), lat |-> 0, lng |-> g]) :
             <<l, t, g>> \in
               {x \in shorter \X IdSet \X NodeLngs :
                  /\ Len(x[1]) = n - 1
                  /\ \A i \in 1..Len(x[1]) : Key(x[1][i].id) # x[2]}}

Init ==
  /\ numericIds \in BOOLEAN
  /\ nodesFile \in NodeLists(numericIds, MaxNodes) \cup
                   {Append(l, NullNode) : l \in NodeLists(numericIds, MaxNodes - 1)}
  /\ \E pairs \in SUBSET Pairs :
       /\ Cardinality(pairs) <= MaxRouteEdges
       /\ edgesFile = MkGraph(numericIds, pairs, [p \in pairs |-> 1])
  /\ graphNodes = NoValue
  /\ graphEdges = NoValue
  /\ loader = "fetch"
  /\ req = NoReq
  /\ response = NoReq
  /\ search = NoSearch

\* await Promise.all([fetch(nodesUrl), fetch(edgesUrl)]) resolves
FetchDone ==
  /\ loader = "fetch"
  /\ loader' = "nodesJson"
  /\ UNCHANGED <<numericIds, nodesFile, edgesFile, graphNodes, graphEdges,
                 req, response, search>>

\* const allNodes = await nodesRes.json() resolves
NodesParsed ==
  /\ loader = "nodesJson"
  /\ loader' = "edgesJson"
  /\ UNCHANGED <<numericIds, nodesFile, edgesFile, graphNodes, graphEdges,
                 req, response, search>>

\* graphEdges = await edgesRes.json() resolves and is assigned; the filter
\* runs in the same turn of the event loop and assigns graphNodes, unless it
\* throws: then the catch block logs and graphNodes stays null
loadGraphData ==
  /\ loader = "edgesJson"
  /\ graphEdges' = Value(edgesFile)
  /\ IF FilterThrows(nodesFile)
     THEN loader' = "failed" /\ UNCHANGED graphNodes
     ELSE /\ loader' = "loaded"
          /\ graphNodes' = Value(FilterRoutable(nodesFile, edgesFile))
  /\ UNCHANGED <<numericIds, nodesFile, edgesFile, req, response, search>>

\* a fetch or a json() rejects: the catch block logs, nothing is assigned
LoadFails ==
  /\ loader \in {"fetch", "nodesJson", "edgesJson"}
  /\ loader' = "failed"
  /\ UNCHANGED <<numericIds, nodesFile, edgesFile, graphNodes, graphEdges,
                 req, response, search>>

\* POST /calculate_route with body {start, end, deviceInfo}; the handler
\* never awaits, so it runs to its response in one turn.
CalculateRoute ==
  \E s \in QueryLngs, e \in QueryLngs, d \in DeviceInfos :
    LET out == calculateRoute(graphNodes, graphEdges, Coord(s), Coord(e), d)
    IN /\ req' = out.req
       /\ response' = out.response
       /\ UNCHANGED <<numericIds, nodesFile, edgesFile, graphNodes,
                      graphEdges, loader, search>>

Next == FetchDone \/ NodesParsed \/ loadGraphData \/ LoadFails \/ CalculateRoute

Spec == Init /\ [][Next]_vars

\* ================================================================ properties
\* ---------------------------------------------------------------- reference
\* the directed edges of a graph, ids in canonical (text) form
EdgeSet(graph) ==
  UNION {{<<k, Key(graph[k][i].node), graph[k][i].weight>> : i \in DOMAIN graph[k]}
           : k \in DOMAIN graph}

Min(S) == CHOOSE x \in S : \A y \in S : x <= y

\* Bellman-Ford rounds from `from`: d after n more rounds
RECURSIVE RefRounds(_, _, _)
RefRounds(graph, d, n) ==
  IF n = 0 THEN d
  ELSE RefRounds(graph,
         [k \in DOMAIN d |->
            Min({d[k]} \cup {d[e[1]] + e[3] : e \in
                   {e \in EdgeSet(graph) : e[2] = k /\ d[e[1]] < Infinity}})],
         n - 1)

\* the minimum total weight over all directed paths from -> to, or Infinity
RefDistance(graph, from, to) ==
  LET dom == GraphKeys(graph) \cup {from, to}
      d0 == [k \in dom |-> IF k = from THEN 0 ELSE Infinity]
  IN RefRounds(graph, d0, Cardinality(dom))[to]

\* the least weight of an edge a -> b, or Infinity when there is none
EdgeWeight(graph, a, b) ==
  LET ws == {e[3] : e \in {e \in EdgeSet(graph) : e[1] = a /\ e[2] = b}}
  IN IF ws = {} THEN Infinity ELSE Min(ws)

RECURSIVE PathWeight(_, _)
PathWeight(graph, path) ==
  IF Len(path) <= 1 THEN 0
  ELSE EdgeWeight(graph, Key(path[1]), Key(path[2])) +
       PathWeight(graph, Tail(path))

SearchDone == search.pc = "done"
SearchRef ==
  RefDistance(graphEdges.v, Key(search.start), Key(search.end))

\* ---------------------------------------------------------------- C1
\* C1 (as claimed): whenever a directed path start -> end exists (start # end),
\* the returned distance is the minimum total weight over all such paths.
\* Stated for the searches that return a path: a search that returns
\* UNREACHABLE although a path exists is the case of C2.
C1_DistanceIsShortest ==
  (SearchDone /\ search.start # search.end /\ SearchRef < Infinity
     /\ search.path # <<>>)
    => search.distance = SearchRef

\* ---------------------------------------------------------------- C2
\* C2 (as claimed): for start # end the search returns UNREACHABLE (empty
\* path, distance Infinity) if and only if no directed path exists.
C2_UnreachableIffNoPath ==
  (SearchDone /\ search.start # search.end)
    => ((search.path = <<>> /\ search.distance = Infinity)
          <=> SearchRef = Infinity)

\* ---------------------------------------------------------------- C3
\* C3: a returned non-empty path (start # end) begins at start, ends at end,
\* follows directed edges of the graph, and holds the meeting node once.
C3_PathWellFormed ==
  (SearchDone /\ search.start # search.end /\ search.path # <<>>)
    => /\ search.path[1] = search.start
       /\ search.path[Len(search.path)] = search.end
       /\ \A i \in 1..(Len(search.path) - 1) :
            \E e \in EdgeSet(graphEdges.v) :
              e[1] = Key(search.path[i]) /\ e[2] = Key(search.path[i + 1])
       /\ Cardinality({i \in 1..Len(search.path) :
                         search.path[i] = search.meetingNode}) = 1

\* a path of three nodes whose meeting node is the inner one
C3_Witness ==
  /\ SearchDone /\ search.start # search.end
  /\ Len(search.path) = 3
  /\ search.path[2] = search.meetingNode

\* ---------------------------------------------------------------- C4
\* C4: the edge weights along a returned non-empty path sum to the returned
\* distance.
C4_PathWeightIsDistance ==
  (SearchDone /\ search.path # <<>>)
    => PathWeight(graphEdges.v, search.path) = search.distance

\* a returned path of two edges with a positive distance
C4_Witness ==
  /\ SearchDone /\ Len(search.path) = 3 /\ search.distance > 0
  /\ search.meetingNode # search.start /\ search.meetingNode # search.end

\* ---------------------------------------------------------------- service claims
\* the handler ran past the DataUnavailable check
Handled == req.kind = "route"

NodeIndexes == 1..Len(graphNodes.v)
NodeDist(i, c) ==
  haversine(graphNodes.v[i].lat, graphNodes.v[i].lng, c.lat, c.lng)
\* r is the first node of least distance to c among the candidates, or null
\* when there is no candidate
IsNearestOf(r, c, candidates) ==
  IF candidates = {} THEN r = Null
  ELSE \E i \in candidates :
         /\ r = graphNodes.v[i].id
         /\ \A j \in candidates :
              /\ NodeDist(i, c) <= NodeDist(j, c)
              /\ NodeDist(j, c) = NodeDist(i, c) => i <= j

\* ---------------------------------------------------------------- C5
\* C5: identical start and end coordinates on a loaded graph with a non-empty
\* routable set succeed with the single snapped node as the route. Requests
\* whose indoor detection threw are left to C13.
C5_SameCoordsSingleNode ==
  (Handled /\ req.start = req.end /\ graphNodes.v # <<>> /\
   response # Rejected)
    => /\ response.success
       /\ Len(response.route) = 1
       /\ \E i \in NodeIndexes :
            /\ graphNodes.v[i].id = req.startNode
            /\ response.route[1] = [lat |-> graphNodes.v[i].lat,
                                    lng |-> graphNodes.v[i].lng]

\* ---------------------------------------------------------------- C6
MinSpacing ==
  Min({haversine(graphNodes.v[i].lat, graphNodes.v[i].lng,
                 graphNodes.v[j].lat, graphNodes.v[j].lng) :
         <<i, j>> \in {p \in NodeIndexes \X NodeIndexes : p[1] # p[2]}})

\* C6 (as claimed): with at least two routable nodes of distinct ids and query
\* coordinates farther apart than the smallest inter-node spacing, the query
\* never fails TooClose, whatever the ids (0 included).
C6_NeverTooClose ==
  (/\ Handled
   /\ \E i, j \in NodeIndexes :
        String(graphNodes.v[i].id) # String(graphNodes.v[j].id)
   /\ haversine(req.start.lat, req.start.lng, req.end.lat, req.end.lng)
        > MinSpacing)
    => response.error # TooClose

\* ---------------------------------------------------------------- C7
\* C7 (as claimed): when a snap of the start or of the end coordinate is null,
\* the query fails NoNearbyNode (both snaps null included).
C7_NullSnapIsNoNearbyNode ==
  (Handled /\ (req.startNode = Null \/ req.firstEnd = Null
                 \/ req.endNode = Null))
    => response.error = NoNearbyNode

\* ---------------------------------------------------------------- C8
\* C8 (as claimed): with a non-empty routable node set no query fails
\* NoNearbyNode.
C8_NoNearbyNodeOnlyWhenEmpty ==
  (Handled /\ graphNodes.v # <<>>) => response.error # NoNearbyNode

\* ---------------------------------------------------------------- C9
\* C9 (as claimed): each findNearestNode call of the handler returns the first
\* node of least distance among the nodes whose id differs from exclude, and
\* null exactly when there is no such node.
C9_NearestAmongOthers ==
  Handled =>
    /\ IsNearestOf(req.startNode, req.start, NodeIndexes)
    /\ IsNearestOf(req.firstEnd, req.end, NodeIndexes)
    /\ String(req.startNode) = String(req.firstEnd) =>
         IsNearestOf(req.endNode, req.end,
                     {i \in NodeIndexes : graphNodes.v[i].id # req.startNode})

\* ---------------------------------------------------------------- C10
\* the id texts that are a source key or a destination of the loaded edges
EndpointTexts ==
  DOMAIN edgesFile \cup {e[2] : e \in EdgeSet(edgesFile)}

\* C10: after a successful load graphNodes is exactly the input nodes whose id
\* text is a source key or an edge destination; so every snapped id passes the
\* start/end validity check of the search.
C10_RoutableFilter ==
  /\ loader = "loaded" =>
       /\ ~graphNodes.null /\ ~graphEdges.null
       /\ graphNodes.v =
            SelectSeq(nodesFile, LAMBDA n : Key(n.id) \in EndpointTexts)
  /\ (Handled /\ req.searched) =>
       StartEndValid(graphEdges.v, String(req.startNode), String(req.endNode))

\* a load that dropped a node, followed by a query that ran the search
C10_Witness ==
  /\ loader = "loaded" /\ Len(graphNodes.v) < Len(nodesFile)
  /\ Handled /\ req.searched

\* ---------------------------------------------------------------- C11
\* C11: while the load has not completed, and ever after it failed (at the
\* fetch, at either JSON parse, or in the node filter), the last handled
\* request was answered 503 DataUnavailable before any snap or search ran.
\* The load only moves forward and "loaded" is final, so a request recorded
\* in a state whose load is not "loaded" was handled under such a load.
C11_UnavailableUntilLoaded ==
  (loader # "loaded" /\ req # NoReq) =>
    /\ req.kind = "early"
    /\ response = Failure(503, DataUnavailable)

\* a request handled after the node filter threw: graphEdges is already
\* assigned, graphNodes is still null
C11_Witness ==
  /\ loader = "failed" /\ ~graphEdges.null /\ graphNodes.null
  /\ req.kind = "early" /\ response.status = 503

\* ---------------------------------------------------------------- C12
\* C12: every successful /calculate_route response carries the coordinate list
\* of the path and the total distance the search computed.
C12_SuccessCarriesDistance ==
  (Handled /\ response.success) =>
    /\ response.route = PathCoords(graphNodes.v, req.result.path)
    /\ "distance" \in DOMAIN response
    /\ response.distance = req.result.distance

\* ---------------------------------------------------------------- C13
\* the routing outcome of a response: success flag, failure reason, route
Outcome(r) == <<r.success, r.error, r.route>>

\* C13: the routing outcome of a handled request is the outcome the same
\* start and end have on the same graph under every other deviceInfo.
C13_DeviceInfoNeverAltersRoute ==
  Handled =>
    \A d \in DeviceInfos :
      Outcome(calculateRoute(graphNodes, graphEdges, req.start, req.end,
                             d).response) = Outcome(response)

\* ---------------------------------------------------------------- C14
\* the same graph with every edge destination in text form
Textual(graph) ==
  [k \in DOMAIN graph |->
     [i \in DOMAIN graph[k] |->
        [node |-> Str(Key(graph[k][i].node)), weight |-> graph[k][i].weight]]]

\* a path with every id in text form
TextPath(path) == [i \in DOMAIN path |-> Key(path[i])]

\* C14: a finished search returns the path and the distance that the search
\* returns for the same graph with all ids textual, whether the edge
\* destinations of the graph are numbers or strings.
C14_SameResultAsTextual ==
  SearchDone =>
    LET textual == bidirectionalDijkstra(Textual(graphEdges.v),
                                         search.start, search.end)
    IN /\ search.distance = textual.distance
       /\ TextPath(search.path) = TextPath(textual.path)

\* ---------------------------------------------------------------- C15
\* the smallest tentative distance among all entries of a queue
TrueMin(queue) ==
  IF queue = <<>> THEN Infinity
  ELSE Min({queue[i].dist : i \in DOMAIN queue})

\* C15: when the loop has just stopped, both queues are empty or the true
\* minima of the two queues add up to at least the best candidate; an empty
\* queue has the minimum Infinity, as in the code.
C15_NoEarlyStop ==
  search.pc = "reconstruct" =>
    \/ search.queueForward = <<>> /\ search.queueBackward = <<>>
    \/ TrueMin(search.queueForward) + TrueMin(search.queueBackward)
          >= search.bestDistance

\* the loop stopped on a candidate with entries left in both queues, the
\* first entry of the forward queue not being its smallest
C15_Witness ==
  /\ search.pc = "reconstruct"
  /\ search.bestDistance < Infinity
  /\ search.queueForward # <<>> /\ search.queueBackward # <<>>
  /\ QueueFront(search.queueForward) > TrueMin(search.queueForward)

\* ---------------------------------------------------------------- C16
\* C16: every iteration that stays in the loop advances the direction whose
\* queue has the smaller true minimum, forward when the minima are equal:
\* that direction's queue is sorted, its first entry popped and settled, the
\* other direction is left alone.
C16_AdvanceSmallerFrontier ==
  [][(search.pc = "loop" /\ search'.pc = "loop") =>
       search' = IF TrueMin(search.queueForward) <=
                      TrueMin(search.queueBackward)
                 THEN ForwardStep(graphEdges.v, search)
                 ELSE BackwardStep(graphEdges.v, search)]_vars

\* ---------------------------------------------------------------- C17
\* the id texts of a visited set
VisitedKeys(visited) == {Key(n) : n \in visited}

\* one direction advances: one entry leaves its queue and one entry is pushed
\* for every distance that was lowered; either nothing is settled and nothing
\* pushed, or one node whose id was not settled before is settled
Advances(queue, visited, distances, queue2, visited2, distances2) ==
  /\ Len(queue2) = Len(queue) - 1 +
        Cardinality({k \in DOMAIN distances : distances2[k] # distances[k]})
  /\ \/ visited2 = visited /\ distances2 = distances
     \/ \E n \in visited2 :
          /\ Key(n) \notin VisitedKeys(visited)
          /\ visited2 = visited \cup {n}

\* an iteration of the loop breaks, or advances exactly one direction
LoopProgress ==
  search.pc = "loop" =>
    \/ search' = [search EXCEPT !.pc = "reconstruct"]
    \/ /\ search'.pc = "loop"
       /\ Advances(search.queueForward, search.visitedForward,
                   search.distancesForward, search'.queueForward,
                   search'.visitedForward, search'.distancesForward)
       /\ search'.queueBackward = search.queueBackward
       /\ search'.visitedBackward = search.visitedBackward
       /\ search'.distancesBackward = search.distancesBackward
    \/ /\ search'.pc = "loop"
       /\ Advances(search.queueBackward, search.visitedBackward,
                   search.distancesBackward, search'.queueBackward,
                   search'.visitedBackward, search'.distancesBackward)
       /\ search'.queueForward = search.queueForward
       /\ search'.visitedForward = search.visitedForward
       /\ search'.distancesForward = search.distancesForward

\* the two results of a call
Found == search.path # <<>> /\ search.distance < Infinity
Unreachable == search.path = <<>> /\ search.distance = Infinity

\* C17: every call returns, FOUND or UNREACHABLE; every iteration of its loop
\* breaks or removes one queue entry, settles each id at most once per
\* direction and pushes only while relaxing the node it has just settled.
C17_Terminates ==
  /\ [][LoopProgress]_vars
  /\ <>(SearchDone /\ (Found \/ Unreachable))

\* a returned call that settled two nodes in each direction
C17_Witness ==
  /\ SearchDone /\ Found
  /\ Cardinality(search.visitedForward) >= 2
  /\ Cardinality(search.visitedBackward) >= 2

====
